---- MODULE Spec2Model ----
(***************************************************************************)
(* A model of mcp_server.py: the API registry (APIManager), the request    *)
(* resolver and executor (APIManager.call_api), the four protocol handlers *)
(* and main().                                                             *)
(*                                                                         *)
(* Strings are sequences of atoms.  A name (API name, endpoint name, tool  *)
(* identifier, URI) is spelled character by character, so that split,      *)
(* replace and startswith are computed as Python computes them.  Opaque    *)
(* texts (a token, a header value, a literal of a message) are one atom.   *)
(* Python's None is the one-atom sequence None, which no name spells.      *)
(* A dict is a function; its DOMAIN holds the keys that are present.       *)
(***************************************************************************)
EXTENDS Integers, Sequences, FiniteSets, TLC

VARIABLES
    apis,      \* api_manager.apis
    client,    \* api_manager.client: "open" or "closed"
    closes,    \* how many times api_manager.close() has run
    pc,        \* where the module stands: imported, or a place in main()
    idx,       \* main()'s position in SAMPLE_APIS
    replaced,  \* history: some register_api call replaced a stored definition
    last       \* the last operation: its inputs and what it returned

vars == <<apis, client, closes, pc, idx, replaced, last>>

\* ------------------------------------------------------------- bounds
\* The largest number of distinct API names the registry holds in Spec.
MaxApis == 2

\* ------------------------------------------------------------ strings
None == <<"<None>">>

EmptyDict == [k \in {} |-> <<>>]

Sep == <<"_">>

Slash == <<"/">>

CALL_API == <<"c", "a", "l", "l", "_", "a", "p", "i">>

ApiScheme == <<"a", "p", "i", ":", "/", "/">>

InfoWord == <<"i", "n", "f", "o">>

\* str(x) inside an f-string: None prints as the four characters of "None".
Str(x) == IF x = None THEN <<"N", "o", "n", "e">> ELSE x

\* sub in s  (Python's substring test)
Contains(s, sub) ==
    \E i \in 1..(Len(s) - Len(sub) + 1) : SubSeq(s, i, i + Len(sub) - 1) = sub

\* s.startswith(p)
StartsWith(s, p) == Len(s) >= Len(p) /\ SubSeq(s, 1, Len(p)) = p

\* The index of the first occurrence of sub in s (s contains sub).
FirstAt(s, sub) ==
    CHOOSE i \in 1..(Len(s) - Len(sub) + 1) :
        /\ SubSeq(s, i, i + Len(sub) - 1) = sub
        /\ \A j \in 1..(i - 1) : SubSeq(s, j, j + Len(sub) - 1) # sub

\* s.split(sep, 1): at most one split, at the first occurrence of sep.
SplitFirst(s, sep) ==
    IF Contains(s, sep)
    THEN <<SubSeq(s, 1, FirstAt(s, sep) - 1),
           SubSeq(s, FirstAt(s, sep) + Len(sep), Len(s))>>
    ELSE <<s>>

\* s.split(sep): split at every occurrence of sep.
RECURSIVE SplitAll(_, _)
SplitAll(s, sep) ==
    IF Contains(s, sep)
    THEN <<SubSeq(s, 1, FirstAt(s, sep) - 1)>>
         \o SplitAll(SubSeq(s, FirstAt(s, sep) + Len(sep), Len(s)), sep)
    ELSE <<s>>

\* s.replace(old, ""): every occurrence of old removed, left to right.
RECURSIVE RemoveAll(_, _)
RemoveAll(s, old) ==
    IF Contains(s, old)
    THEN SubSeq(s, 1, FirstAt(s, old) - 1)
         \o RemoveAll(SubSeq(s, FirstAt(s, old) + Len(old), Len(s)), old)
    ELSE s

\* Python truthiness of an Optional[str] / Optional[dict] / dict.get(...).
TruthyStr(x) == x # None /\ x # <<>>

TruthyDict(d) == DOMAIN d # {}

\* d.get(k, default)
Get(d, k, default) == IF k \in DOMAIN d THEN d[k] ELSE default

\* d.update(other) on a copy of d: other's keys overwrite d's.
Update(d, other) == other @@ d

\* ---------------------------------------------------- the definitions
\* An APIEndpoint: name, base_url, endpoints (an insertion-ordered dict,
\* here a sequence of [name, cfg] with pairwise distinct names), headers
\* (a dict, EmptyDict standing for None and for {} alike: the code only
\* tests its truthiness), auth_token (None, "" or a token).
APIEndpoint(name, base_url, endpoints, headers, auth_token) ==
    [name |-> name, base_url |-> base_url, endpoints |-> endpoints,
     headers |-> headers, auth_token |-> auth_token]

Endpoint(name, cfg) == [name |-> name, cfg |-> cfg]

\* A URL: the origin and the path's segments.
Url(origin, segs) == [origin |-> origin, segs |-> segs]

\* An endpoint's "path": absolute ("/a/b") or relative ("a/b").
Path(abs, segs) == [abs |-> abs, segs |-> segs]

NoPath == Path(FALSE, <<>>)

\* urllib.parse.urljoin(base, path) for a path reference: the empty
\* reference keeps the base, an absolute path replaces the base's path, a
\* relative one replaces the base's last segment.
urljoin(base, p) ==
    IF p.segs = <<>> THEN base
    ELSE IF p.abs THEN Url(base.origin, p.segs)
    ELSE Url(base.origin,
             (IF base.segs = <<>> THEN <<>>
              ELSE SubSeq(base.segs, 1, Len(base.segs) - 1)) \o p.segs)


\* ------------------------------------------------- the shipped config
W_jsonplaceholder == <<"j", "s", "o", "n", "p", "l", "a", "c", "e", "h", "o", "l", "d", "e", "r">>

W_get_posts == <<"g", "e", "t", "_", "p", "o", "s", "t", "s">>

W_get_post == <<"g", "e", "t", "_", "p", "o", "s", "t">>

W_get_users == <<"g", "e", "t", "_", "u", "s", "e", "r", "s">>

W_weather_api == <<"w", "e", "a", "t", "h", "e", "r", "_", "a", "p", "i">>

W_current_weather == <<"c", "u", "r", "r", "e", "n", "t", "_", "w", "e", "a", "t", "h", "e", "r">>

W_forecast == <<"f", "o", "r", "e", "c", "a", "s", "t">>

\* SAMPLE_APIS, in the order main() registers them.
SAMPLE_APIS ==
    << APIEndpoint(W_jsonplaceholder,
         Url(<<"https://jsonplaceholder.typicode.com">>, <<>>),
         << Endpoint(W_get_posts,
              [path |-> Path(TRUE, <<"posts">>), method |-> <<"GET">>,
               description |-> <<"Get all posts">>]),
            Endpoint(W_get_post,
              [path |-> Path(TRUE, <<"posts", "{post_id}">>), method |-> <<"GET">>,
               description |-> <<"Get a specific post by ID">>]),
            Endpoint(W_get_users,
              [path |-> Path(TRUE, <<"users">>), method |-> <<"GET">>,
               description |-> <<"Get all users">>]) >>,
         EmptyDict, None),
       APIEndpoint(W_weather_api,
         Url(<<"https://api.openweathermap.org">>, <<"data", "2.5">>),
         << Endpoint(W_current_weather,
              [path |-> Path(TRUE, <<"weather">>), method |-> <<"GET">>,
               description |-> <<"Get current weather for a city">>]),
            Endpoint(W_forecast,
              [path |-> Path(TRUE, <<"forecast">>), method |-> <<"GET">>,
               description |-> <<"Get weather forecast">>]) >>,
         [k \in {"Content-Type"} |-> <<"application/json">>], None) >>

\* --------------------------------------- definitions a caller registers
\* register_api takes any APIEndpoint.  These are small ones: two
\* definitions under the same name "a" (with 2 and 3 endpoints), a name
\* that holds the separator ("a_b"), a name and endpoint that spell the
\* generic tool ("call", "api").
N_a == <<"a">>

N_a_b == <<"a", "_", "b">>

N_call == <<"c", "a", "l", "l">>

N_zz == <<"z", "z">>

E_c == <<"c">>

E_e == <<"e">>

E_b_c == <<"b", "_", "c">>

E_api == <<"a", "p", "i">>

Tok == <<"tok">>

Def_a1 ==
    APIEndpoint(N_a, Url(<<"https://api.example.com">>, <<"v1">>),
      << Endpoint(E_c, [path |-> Path(TRUE, <<"users">>),
                        headers |-> [k \in {"X-API-Key"} |-> <<"k2">>]]),
         Endpoint(E_b_c, [path |-> Path(FALSE, <<"items">>),
                          method |-> <<"post">>]) >>,
      [k \in {"X-API-Key"} |-> <<"k1">>], Tok)

Def_a2 ==
    APIEndpoint(N_a, Url(<<"https://api.example.com">>, <<"v2">>),
      << Endpoint(E_c, [headers |-> [k \in {"Authorization"} |-> <<"own">>],
                        description |-> <<"Get c">>]),
         Endpoint(E_e, [path |-> Path(TRUE, <<"e">>), headers |-> EmptyDict]),
         Endpoint(E_b_c, [method |-> <<"GET">>]) >>,
      [k \in {"Authorization", "Content-Type"} |->
          IF k = "Authorization" THEN <<"dflt">> ELSE <<"application/json">>],
      Tok)

Def_a_b ==
    APIEndpoint(N_a_b, Url(<<"https://ab.example.com">>, <<>>),
      << Endpoint(E_c, [path |-> Path(TRUE, <<"c">>)]) >>,
      EmptyDict, None)

Def_call ==
    APIEndpoint(N_call, Url(<<"https://call.example.com">>, <<>>),
      << Endpoint(E_api, [path |-> Path(TRUE, <<"api">>),
                          headers |-> [k \in {"Authorization"} |-> <<"own">>]]) >>,
      [k \in {"Authorization"} |-> <<"dflt">>], <<>>)

Defs == {Def_a1, Def_a2, Def_a_b, Def_call}

\* -------------------------------------------------------- the registry
\* self.apis: an insertion-ordered dict keyed by name, here the sequence
\* of the stored definitions in insertion order.
\* name in self.apis
Has(reg, name) == \E i \in 1..Len(reg) : reg[i].name = name

\* self.apis[name]
Lookup(reg, name) == reg[CHOOSE i \in 1..Len(reg) : reg[i].name = name]

\* The mutant of register_api: a second registration under a name is kept
\* beside the first.
register_api_keeps_both(reg, api_config) == Append(reg, api_config)

\* self.apis[api_config.name] = api_config: a new key is appended, an
\* existing key keeps its place and gets the new value.
register_api(reg, api_config) ==
    IF Has(reg, api_config.name)
    THEN [i \in 1..Len(reg) |->
            IF reg[i].name = api_config.name THEN api_config ELSE reg[i]]
    ELSE Append(reg, api_config)

\* endpoint_name in api.endpoints
HasEndpoint(api, endpoint_name) ==
    \E j \in 1..Len(api.endpoints) : api.endpoints[j].name = endpoint_name

\* api.endpoints[endpoint_name]
EndpointConfig(api, endpoint_name) ==
    api.endpoints[CHOOSE j \in 1..Len(api.endpoints) :
                      api.endpoints[j].name = endpoint_name].cfg


\* ------------------------------------------------------------ call_api
\* What the network and httpx do with one request: a transport failure
\* (httpx.RequestError), a response (its status, whether raise_for_status
\* raises, whether its body parses as JSON), or an exception of another
\* class raised inside client.request / response.json.
\* raise_for_status raises for 4xx and 5xx and never for 2xx; for 3xx it
\* depends on the httpx release.
Response(status, raises, is_json) ==
    [kind |-> "response", status |-> status, raises |-> raises, is_json |-> is_json]

Outcomes ==
    { [kind |-> "RequestError"], [kind |-> "OtherError"],
      Response(200, FALSE, TRUE), Response(200, FALSE, FALSE),
      Response(301, FALSE, FALSE), Response(301, TRUE, FALSE),
      Response(404, TRUE, TRUE) }

\* The outcome of a call: the requests it issued on the client, what the
\* network did with them, what it returned (<<value>>, or <<>> when it
\* raised) and what it raised.
Returned(sent, net, value) ==
    [sent |-> sent, net |-> net, ret |-> <<value>>, exc |-> <<>>]

Raised(sent, net, cls, msg) ==
    [sent |-> sent, net |-> net, ret |-> <<>>,
     exc |-> <<[cls |-> cls, msg |-> msg]>>]

\* str.upper() of a method name.
Upper(m) == IF m = <<"post">> THEN <<"POST">>
            ELSE IF m = <<"get">> THEN <<"GET">> ELSE m

\* The mutant of the header merge: the endpoint's headers are applied
\* first, so the API's defaults overwrite them.
PrepareHeaders_endpoint_first(api, endpoint_config) ==
    LET h1 == IF TruthyDict(Get(endpoint_config, "headers", EmptyDict))
              THEN Update(EmptyDict, endpoint_config["headers"]) ELSE EmptyDict
        h2 == IF TruthyDict(api.headers) THEN Update(h1, api.headers) ELSE h1
    IN  IF TruthyStr(api.auth_token)
        THEN Update(h2, [k \in {"Authorization"} |-> <<"Bearer ">> \o api.auth_token])
        ELSE h2

\* The mutant of the header merge: the bearer token is applied last.
PrepareHeaders_auth_last(api, endpoint_config) ==
    LET h1 == IF TruthyDict(api.headers) THEN Update(EmptyDict, api.headers)
              ELSE EmptyDict
        h2 == IF TruthyDict(Get(endpoint_config, "headers", EmptyDict))
              THEN Update(h1, endpoint_config["headers"]) ELSE h1
    IN  IF TruthyStr(api.auth_token)
        THEN Update(h2, [k \in {"Authorization"} |-> <<"Bearer ">> \o api.auth_token])
        ELSE h2

\* Lines 60-66: headers = {}; the API's headers; the bearer token; the
\* endpoint's headers.  Each step is taken when its source is truthy.
PrepareHeaders(api, endpoint_config) ==
    LET h1 == IF TruthyDict(api.headers) THEN Update(EmptyDict, api.headers)
              ELSE EmptyDict
        h2 == IF TruthyStr(api.auth_token)
              THEN Update(h1, [k \in {"Authorization"} |->
                                   <<"Bearer ">> \o api.auth_token])
              ELSE h1
    IN  IF TruthyDict(Get(endpoint_config, "headers", EmptyDict))
        THEN Update(h2, endpoint_config["headers"]) ELSE h2

\* The mutant of the transport-failure result: it carries the sentinel -1.
RequestErrorResult_minus_one ==
    [status_code |-> -1, error |-> <<"Request failed: ", "<str(e)>">>,
     success |-> FALSE]

\* Lines 99-104.
RequestErrorResult ==
    [status_code |-> 0, error |-> <<"Request failed: ", "<str(e)>">>,
     success |-> FALSE]

\* Lines 74-110: the request is issued and its outcome classified.
Execute(request, outcome) ==
    IF outcome.kind = "RequestError"
    THEN Returned(<<request>>, <<outcome>>, RequestErrorResult)
    ELSE IF outcome.kind = "OtherError"
    THEN Raised(<<request>>, <<outcome>>, "RuntimeError", <<"<str(e)>">>)
    ELSE IF outcome.raises
    THEN Returned(<<request>>, <<outcome>>,
           [status_code |-> outcome.status,
            error |-> <<"HTTP error: ", "<str(e)>">>, success |-> FALSE])
    ELSE Returned(<<request>>, <<outcome>>,
           [status_code |-> outcome.status,
            data |-> IF outcome.is_json THEN <<"<response.json()>">>
                     ELSE <<"<response.text>">>,
            success |-> TRUE])

\* The request call_api builds (lines 54-72).
ResolvedRequest(api, endpoint_name, endpoint_config, kwargs) ==
    [api |-> api.name, endpoint |-> endpoint_name,
     method |-> Upper(Get(endpoint_config, "method", <<"GET">>)),
     url |-> urljoin(api.base_url, Get(endpoint_config, "path", NoPath)),
     headers |-> PrepareHeaders(api, endpoint_config),
     params |-> Get(kwargs, "params", EmptyDict),
     json |-> Get(kwargs, "json", None),
     data |-> Get(kwargs, "data", None)]

\* The mutant of call_api: an unknown endpoint is looked up with
\* api.endpoints.get(endpoint_name, {}) and the request goes out.
call_api_no_endpoint_check(reg, api_name, endpoint_name, kwargs, outcome) ==
    IF ~Has(reg, api_name)
    THEN Raised(<<>>, <<>>, "ValueError",
                <<"API '">> \o Str(api_name) \o <<"' not found">>)
    ELSE
      LET api == Lookup(reg, api_name) IN
      Execute(ResolvedRequest(api, endpoint_name,
                IF HasEndpoint(api, endpoint_name)
                THEN EndpointConfig(api, endpoint_name) ELSE EmptyDict,
                kwargs), outcome)

\* Lines 45-110.
call_api(reg, api_name, endpoint_name, kwargs, outcome) ==
    IF ~Has(reg, api_name)
    THEN Raised(<<>>, <<>>, "ValueError",
                <<"API '">> \o Str(api_name) \o <<"' not found">>)
    ELSE
      LET api == Lookup(reg, api_name) IN
      IF ~HasEndpoint(api, endpoint_name)
      THEN Raised(<<>>, <<>>, "ValueError",
                  <<"Endpoint '">> \o Str(endpoint_name)
                  \o <<"' not found in API '">> \o Str(api_name) \o <<"'">>)
      ELSE
        Execute(ResolvedRequest(api, endpoint_name,
                  EndpointConfig(api, endpoint_name), kwargs), outcome)

\* ---------------------------------------------------- handle_call_tool
\* The argument object: a dict, or None.  None is the dict-like value
\* NoArguments, on which .get raises AttributeError.
NoArguments == [k \in {"<None>"} |-> None]

IsNone(arguments) == "<None>" \in DOMAIN arguments

TextContent(text) == [type |-> "text", text |-> text]

\* str(status_code) for the status codes of Outcomes.
StatusText(n) ==
    CASE n = 0 -> <<"0">>
      [] n = 200 -> <<"2", "0", "0">>
      [] n = 301 -> <<"3", "0", "1">>
      [] n = 404 -> <<"4", "0", "4">>
      [] OTHER -> <<"<int>">>

\* Lines 269-273.
FormatResult(result) ==
    IF Get(result, "success", FALSE)
    THEN <<"API call successful!\n\nStatus: ">> \o StatusText(result["status_code"])
         \o <<"\nResponse:\n", "json.dumps">> \o result["data"]
    ELSE <<"API call failed!\n\nStatus: ">>
         \o (IF "status_code" \in DOMAIN result
             THEN StatusText(result["status_code"]) ELSE <<"Unknown">>)
         \o <<"\nError: ">> \o Get(result, "error", <<"Unknown error">>)

\* The keyword arguments both paths pass on (lines 240-242, 257-259).
Kwargs(arguments) ==
    [k \in {"params", "data", "json"} |->
        IF k = "params" THEN Get(arguments, "params", EmptyDict)
        ELSE Get(arguments, k, None)]

\* Lines 236-267: the body of the try up to the result.
Dispatch(reg, name, arguments, outcome) ==
    IF name = CALL_API
    THEN IF IsNone(arguments)
         THEN Raised(<<>>, <<>>, "AttributeError", <<"'NoneType' object has no attribute 'get'">>)
         ELSE call_api(reg, Get(arguments, "api_name", None),
                       Get(arguments, "endpoint_name", None),
                       Kwargs(arguments), outcome)
    ELSE IF ~Contains(name, Sep)
    THEN Raised(<<>>, <<>>, "ValueError", <<"Invalid tool name format: ">> \o name)
    ELSE IF IsNone(arguments)
    THEN Raised(<<>>, <<>>, "AttributeError", <<"'NoneType' object has no attribute 'get'">>)
    ELSE call_api(reg, SplitFirst(name, Sep)[1], SplitFirst(name, Sep)[2],
                  Kwargs(arguments), outcome)

\* The mutant of the handler's except clause: it catches ValueError only.
Catches_ValueError_only(cls) == cls = "ValueError"

\* Line 277, except Exception: every class raised in the flow is one.
Catches(cls) == cls \in {"ValueError", "AttributeError", "RuntimeError"}

\* Lines 232-280: what the handler returns (reply) or lets escape (fault).
handle_call_tool(reg, name, arguments, outcome) ==
    LET flow == Dispatch(reg, name, arguments, outcome) IN
    IF flow.exc = <<>>
    THEN [sent |-> flow.sent, net |-> flow.net, ret |-> flow.ret, exc |-> <<>>,
          reply |-> <<TextContent(FormatResult(flow.ret[1]))>>, fault |-> <<>>]
    ELSE IF Catches(flow.exc[1].cls)
    THEN [sent |-> flow.sent, net |-> flow.net, ret |-> <<>>, exc |-> flow.exc,
          reply |-> <<TextContent(<<"Error calling API: ">> \o flow.exc[1].msg)>>,
          fault |-> <<>>]
    ELSE [sent |-> flow.sent, net |-> flow.net, ret |-> <<>>, exc |-> flow.exc,
          reply |-> <<>>, fault |-> flow.exc]


\* ---------------------------------------------------- handle_list_tools
Tool(name, description, properties, required) ==
    [name |-> name, description |-> description,
     properties |-> properties, required |-> required]

\* Lines 171-194: the tool of one (API, endpoint) pair.
DerivedTool(api, ep) ==
    Tool(api.name \o Sep \o ep.name,
         api.name \o <<": ">> \o Get(ep.cfg, "description", ep.name),
         {"params", "data", "json"}, {})

\* Lines 197-228.
GenericTool ==
    Tool(CALL_API, <<"Make a direct API call to any registered endpoint">>,
         {"api_name", "endpoint_name", "params", "data", "json"},
         {"api_name", "endpoint_name"})

\* The inner loop (line 170) over one API's endpoints.
ToolsOfApi(api) ==
    [j \in 1..Len(api.endpoints) |-> DerivedTool(api, api.endpoints[j])]

\* The outer loop (line 169) from the i-th stored definition on.
RECURSIVE ToolsFrom(_, _)
ToolsFrom(reg, i) ==
    IF i > Len(reg) THEN <<>>
    ELSE ToolsOfApi(reg[i]) \o ToolsFrom(reg, i + 1)

\* Lines 164-230.
handle_list_tools(reg) == Append(ToolsFrom(reg, 1), GenericTool)

\* ------------------------------------------------ handle_list_resources
\* Lines 282-297.
handle_list_resources(reg) ==
    [i \in 1..Len(reg) |->
        [uri |-> ApiScheme \o reg[i].name \o Slash \o InfoWord,
         name |-> reg[i].name \o <<" API Info">>,
         description |-> <<"Information about the ">> \o reg[i].name
                         \o <<" API endpoints">>,
         mimeType |-> <<"application/json">>]]

\* ------------------------------------------------- handle_read_resource
\* json.dumps({...}, indent=2) of a definition's name, base_url, endpoints.
InfoJson(api) ==
    [dumps |-> [name |-> api.name, base_url |-> api.base_url,
                endpoints |-> api.endpoints],
     indent |-> 2]

UnknownResource(uri) ==
    Raised(<<>>, <<>>, "ValueError", <<"Unknown resource: ">> \o uri)

\* Lines 299-314.
handle_read_resource(reg, uri) ==
    IF StartsWith(uri, ApiScheme)
    THEN LET parts == SplitAll(RemoveAll(uri, ApiScheme), Slash) IN
         IF Len(parts) >= 2 /\ parts[2] = InfoWord
         THEN IF Has(reg, parts[1])
              THEN Returned(<<>>, <<>>, InfoJson(Lookup(reg, parts[1])))
              ELSE UnknownResource(uri)
         ELSE UnknownResource(uri)
    ELSE UnknownResource(uri)

\* -------------------------------------------------------------- inputs
ApiNames(reg) == {reg[i].name : i \in 1..Len(reg)}

EndpointNames(reg) ==
    UNION {{reg[i].endpoints[j].name : j \in 1..Len(reg[i].endpoints)} :
             i \in 1..Len(reg)}

CatalogNames(reg) ==
    {handle_list_tools(reg)[i].name : i \in 1..Len(handle_list_tools(reg))}

\* The optional objects of an argument object.
Extras ==
    { EmptyDict,
      [k \in {"params", "json", "data"} |-> <<"{", k, "}">>] }

\* The argument objects sent to a derived tool.
DerivedArguments == Extras \cup {NoArguments}

\* The argument objects sent to call_api: api_name and endpoint_name each
\* absent, registered or unknown.
GenericArguments(reg) ==
    { a @@ e @@ x :
        a \in {EmptyDict} \cup {[k \in {"api_name"} |-> n] : n \in ApiNames(reg) \cup {N_zz}},
        e \in {EmptyDict} \cup {[k \in {"endpoint_name"} |-> n] :
                                   n \in EndpointNames(reg) \cup {N_zz}},
        x \in {[k \in {"params"} |-> <<"{", k, "}">>]} }
    \cup {NoArguments}

\* The tool names a client sends: those of the catalog, a name without
\* separator, and names of an unknown API and an unknown endpoint.
ToolNameInputs(reg) ==
    CatalogNames(reg) \cup {CALL_API, <<"x">>, N_zz \o Sep \o E_c, N_a \o Sep \o N_zz}

\* The URIs a client reads: those list resources emits, and malformed ones.
UriInputs(reg) ==
    {handle_list_resources(reg)[i].uri : i \in 1..Len(reg)}
    \cup { ApiScheme \o n \o s :
             n \in {N_a, N_zz},
             s \in { Slash \o InfoWord, Slash \o InfoWord \o Slash \o <<"e", "x", "t", "r", "a">>,
                     <<>>, Slash \o <<"x">>, Slash \o InfoWord \o Slash } }
    \cup { N_a \o Slash \o InfoWord,
           <<"h", "t", "t", "p", ":", "/", "/">> \o N_a \o Slash \o InfoWord,
           ApiScheme \o ApiScheme \o N_a \o Slash \o InfoWord }

\* ------------------------------------------------------------- actions
\* The module is imported: api_manager = APIManager() (lines 36-38, 118)
\* holds an empty registry and an open client.
Init ==
    /\ apis = <<>>
    /\ client = "open"
    /\ closes = 0
    /\ pc = "imported"
    /\ idx = 1
    /\ replaced = FALSE
    /\ last = [op |-> "init"]

\* The handlers run while the module is in use: imported and driven by a
\* caller, or inside server.run.
Serving == pc \in {"imported", "serving"}

\* api_manager.register_api(d), called by the module's user.
RegisterApi ==
    /\ pc = "imported"
    /\ \E d \in Defs :
         /\ Has(apis, d.name) \/ Len(apis) < MaxApis
         /\ apis' = register_api(apis, d)
         /\ replaced' = (replaced \/ Has(apis, d.name))
         /\ last' = [op |-> "register_api", name |-> d.name]
    /\ UNCHANGED <<client, closes, pc, idx>>

ListTools ==
    /\ Serving
    /\ last' = [op |-> "list_tools", tools |-> handle_list_tools(apis)]
    /\ UNCHANGED <<apis, client, closes, pc, idx, replaced>>

CallTool ==
    /\ Serving
    /\ \E name \in ToolNameInputs(apis) :
       \E arguments \in (IF name = CALL_API THEN GenericArguments(apis)
                         ELSE DerivedArguments) :
       \E outcome \in Outcomes :
         last' = [op |-> "call_tool", name |-> name, arguments |-> arguments]
                 @@ handle_call_tool(apis, name, arguments, outcome)
    /\ UNCHANGED <<apis, client, closes, pc, idx, replaced>>

ListResources ==
    /\ Serving
    /\ last' = [op |-> "list_resources", resources |-> handle_list_resources(apis)]
    /\ UNCHANGED <<apis, client, closes, pc, idx, replaced>>

ReadResource ==
    /\ Serving
    /\ \E uri \in UriInputs(apis) :
         last' = [op |-> "read_resource", uri |-> uri]
                 @@ handle_read_resource(apis, uri)
    /\ UNCHANGED <<apis, client, closes, pc, idx, replaced>>

Next == RegisterApi \/ ListTools \/ CallTool \/ ListResources \/ ReadResource

Spec == Init /\ [][Next]_vars

\* ---------------------------------------------------------------- main
\* main() is entered (line 316).
MainInit ==
    /\ apis = <<>>
    /\ client = "open"
    /\ closes = 0
    /\ pc = "main"
    /\ idx = 1
    /\ replaced = FALSE
    /\ last = [op |-> "init"]

\* Lines 319-320: one turn of the registration loop.
MainRegister ==
    /\ pc = "main" /\ idx <= Len(SAMPLE_APIS)
    /\ apis' = register_api(apis, SAMPLE_APIS[idx])
    /\ idx' = idx + 1
    /\ replaced' = (replaced \/ Has(apis, SAMPLE_APIS[idx].name))
    /\ last' = [op |-> "register_api", name |-> SAMPLE_APIS[idx].name]
    /\ UNCHANGED <<client, closes, pc>>

\* Lines 319-336 stand before the try of line 338: an exception raised
\* there leaves main() at once.
MainRegisterRaises ==
    /\ pc = "main" /\ idx <= Len(SAMPLE_APIS)
    /\ pc' = "done"
    /\ last' = [op |-> "main", ended |-> "raised in registration"]
    /\ UNCHANGED <<apis, client, closes, idx, replaced>>

\* Line 339: the stdio transport is entered and server.run starts.
StdioServerEnters ==
    /\ pc = "main" /\ idx > Len(SAMPLE_APIS)
    /\ pc' = "serving"
    /\ last' = [op |-> "main", ended |-> "no"]
    /\ UNCHANGED <<apis, client, closes, idx, replaced>>

\* Line 339: entering the stdio transport raises.
StdioServerRaises ==
    /\ pc = "main" /\ idx > Len(SAMPLE_APIS)
    /\ pc' = "finally"
    /\ last' = [op |-> "main", ended |-> "stdio_server raised"]
    /\ UNCHANGED <<apis, client, closes, idx, replaced>>

\* Lines 340-351: server.run returns (the input stream ended).
ServerRunReturns ==
    /\ pc = "serving"
    /\ pc' = "finally"
    /\ last' = [op |-> "main", ended |-> "server.run returned"]
    /\ UNCHANGED <<apis, client, closes, idx, replaced>>

\* Lines 340-351: server.run raises.
ServerRunRaises ==
    /\ pc = "serving"
    /\ pc' = "finally"
    /\ last' = [op |-> "main", ended |-> "server.run raised"]
    /\ UNCHANGED <<apis, client, closes, idx, replaced>>

\* Lines 352-353 and 112-114: finally: await api_manager.close().
MainFinally ==
    /\ pc = "finally"
    /\ client' = "closed"
    /\ closes' = closes + 1
    /\ pc' = "done"
    /\ UNCHANGED <<apis, idx, replaced, last>>

MainNext ==
    \/ MainRegister \/ MainRegisterRaises
    \/ StdioServerEnters \/ StdioServerRaises
    \/ ListTools \/ CallTool \/ ListResources \/ ReadResource
    \/ ServerRunReturns \/ ServerRunRaises
    \/ MainFinally

MainSpec == MainInit /\ [][MainNext]_vars


\* ============================================================== claims
\* What the formulas below read of the last operation.
CalledTool == last.op = "call_tool"

IssuedRequest == CalledTool /\ last.sent # <<>>

\* The definition stored under a name, and an endpoint's config in it.
Stored(name) == Lookup(apis, name)

ReplyText == last.reply[1].text

\* -------------------------------------------------------------- C1
\* C1: for every tool name and argument object, and whatever the resolver
\* or the executor does, handle_call_tool returns exactly one text content
\* block and lets no error escape.
C1_OneTextBlock ==
    CalledTool =>
        /\ Len(last.reply) = 1
        /\ last.reply[1].type = "text"
        /\ last.fault = <<>>

\* An exception that is neither a resolver error nor an httpx error was
\* raised inside the flow, and the handler answered with one text block.
C1_Witness ==
    /\ CalledTool
    /\ last.exc # <<>>
    /\ last.exc[1].cls = "RuntimeError"
    /\ Len(last.reply) = 1
    /\ last.reply[1].text[1] = "Error calling API: "

\* -------------------------------------------------------------- C2
\* C2: calling the identifier list tools advertises for an (API, endpoint)
\* pair resolves to that pair and issues the request of that endpoint, for
\* every tool of the registered configuration.
C2_AdvertisedToolResolves ==
    (CalledTool /\ ~IsNone(last.arguments)) =>
        \A i \in 1..Len(apis) : \A j \in 1..Len(apis[i].endpoints) :
            last.name = apis[i].name \o Sep \o apis[i].endpoints[j].name =>
                /\ Len(last.sent) = 1
                /\ last.sent[1].api = apis[i].name
                /\ last.sent[1].endpoint = apis[i].endpoints[j].name

\* -------------------------------------------------------------- C3
RECURSIVE C3_SumEndpoints(_)
C3_SumEndpoints(names) ==
    IF names = {} THEN 0
    ELSE LET n == CHOOSE x \in names : TRUE
         IN  Len(Stored(n).endpoints) + C3_SumEndpoints(names \ {n})

\* C3: after any sequence of register_api calls, the catalog has as many
\* entries as the stored definitions (one per distinct name) have
\* endpoints, plus one, and exactly one derived tool for each (API,
\* endpoint) pair of the stored definitions.
C3_CatalogSize ==
    last.op = "list_tools" =>
        /\ Len(last.tools) = C3_SumEndpoints(ApiNames(apis)) + 1
        /\ \A n \in ApiNames(apis) : \A j \in 1..Len(Stored(n).endpoints) :
             LET ep == Stored(n).endpoints[j] IN
             Cardinality({ i \in 1..(Len(last.tools) - 1) :
                 /\ last.tools[i].name = n \o Sep \o ep.name
                 /\ last.tools[i].description =
                      n \o <<": ">> \o (IF "description" \in DOMAIN ep.cfg
                                        THEN ep.cfg["description"] ELSE ep.name) }) = 1

\* The catalog was listed after a registration replaced the definition
\* stored under "a" by the one with three endpoints.
C3_Witness ==
    /\ last.op = "list_tools"
    /\ replaced
    /\ Len(apis) = 2
    /\ Has(apis, N_a) /\ Stored(N_a) = Def_a2
    /\ Len(last.tools) = 3 + Len(apis[2].endpoints) + 1

\* -------------------------------------------------------------- C4
\* The header maps of the request's endpoint and API, as registered.
ReqApi == Stored(last.sent[1].api)

ReqEndpointHeaders ==
    LET cfg == EndpointConfig(ReqApi, last.sent[1].endpoint)
    IN  IF "headers" \in DOMAIN cfg THEN cfg["headers"] ELSE EmptyDict

ReqBearer == <<"Bearer ">> \o ReqApi.auth_token

\* The token is present: set, and not the empty string.
ReqHasToken == ReqApi.auth_token # None /\ ReqApi.auth_token # <<>>

\* C4: the request's headers are the API's default headers, then
\* Authorization: Bearer <token> when the token is present, then the
\* endpoint's headers, a later source overwriting an earlier one; the
\* stored definitions are left as registered.
C4_HeaderMerge ==
    IssuedRequest =>
        LET h == last.sent[1].headers IN
        /\ DOMAIN h = DOMAIN ReqApi.headers \cup DOMAIN ReqEndpointHeaders
                      \cup (IF ReqHasToken THEN {"Authorization"} ELSE {})
        /\ \A k \in DOMAIN h :
             h[k] = IF k \in DOMAIN ReqEndpointHeaders THEN ReqEndpointHeaders[k]
                    ELSE IF k = "Authorization" /\ ReqHasToken THEN ReqBearer
                    ELSE ReqApi.headers[k]
        /\ ( /\ ReqApi.headers = [k \in {"X-API-Key"} |-> <<"k1">>]
             /\ ReqApi.auth_token = Tok
             /\ ReqEndpointHeaders = [k \in {"X-API-Key"} |-> <<"k2">>] )
           => h = [k \in {"Authorization", "X-API-Key"} |->
                      IF k = "Authorization" THEN <<"Bearer ">> \o Tok ELSE <<"k2">>]
        /\ \A i \in 1..Len(apis) : apis[i] \in Defs

\* The example of the claim: default {X-API-Key: k1}, token tok, endpoint
\* header {X-API-Key: k2}.
C4_Witness ==
    /\ IssuedRequest
    /\ ReqApi.headers = [k \in {"X-API-Key"} |-> <<"k1">>]
    /\ ReqApi.auth_token = Tok
    /\ ReqEndpointHeaders = [k \in {"X-API-Key"} |-> <<"k2">>]
    /\ last.sent[1].headers["X-API-Key"] = <<"k2">>
    /\ last.sent[1].headers["Authorization"] = <<"Bearer ">> \o Tok

\* -------------------------------------------------------------- C5
\* C5 as stated: when the API has an auth_token, the request's
\* Authorization header is always "Bearer <auth_token>", also when the
\* endpoint's or the API's headers define an Authorization of their own.
C5_BearerAlwaysWins ==
    (IssuedRequest /\ ReqHasToken) =>
        /\ "Authorization" \in DOMAIN last.sent[1].headers
        /\ last.sent[1].headers["Authorization"] = ReqBearer

\* C5 as amended: when the API has a non-empty auth_token, the request's
\* Authorization header is the endpoint's own Authorization value if the
\* endpoint's headers define one, and "Bearer <auth_token>" otherwise,
\* also when the API's default headers define an Authorization.
C5_BearerUnlessEndpoint ==
    (IssuedRequest /\ ReqHasToken) =>
        /\ "Authorization" \in DOMAIN last.sent[1].headers
        /\ last.sent[1].headers["Authorization"] =
             IF "Authorization" \in DOMAIN ReqEndpointHeaders
             THEN ReqEndpointHeaders["Authorization"] ELSE ReqBearer

\* A token, a default Authorization and an endpoint Authorization: the
\* endpoint's value went out.
C5_Witness ==
    /\ IssuedRequest /\ ReqHasToken
    /\ "Authorization" \in DOMAIN ReqApi.headers
    /\ "Authorization" \in DOMAIN ReqEndpointHeaders
    /\ last.sent[1].headers["Authorization"] = <<"own">>

\* -------------------------------------------------------------- C6
\* C6: read resource returns the definition's JSON if and only if the URI
\* is exactly api://<api_name>/info for a registered name, and then the
\* JSON of that API; every other URI fails with "Unknown resource".
C6_ReadIffExactUri ==
    last.op = "read_resource" =>
        /\ last.ret # <<>> <=>
             \E n \in ApiNames(apis) : last.uri = ApiScheme \o n \o Slash \o InfoWord
        /\ \A n \in ApiNames(apis) :
             last.uri = ApiScheme \o n \o Slash \o InfoWord =>
                 last.ret = <<InfoJson(Stored(n))>>
        /\ last.ret = <<>> =>
             last.exc = <<[cls |-> "ValueError",
                           msg |-> <<"Unknown resource: ">> \o last.uri]>>

C8_ClosedOnceAtExit ==
    pc = "done" => (closes = 1 /\ client = "closed")

\* -------------------------------------------------------------- C9
\* The (api_name, endpoint_name) an invocation names: the two arguments
\* of call_api (None when absent), or the parts of the tool name before
\* and after its first separator.
C9_Targets ==
    IF last.name = CALL_API
    THEN { << IF "api_name" \in DOMAIN last.arguments
              THEN last.arguments["api_name"] ELSE None,
              IF "endpoint_name" \in DOMAIN last.arguments
              THEN last.arguments["endpoint_name"] ELSE None >> }
    ELSE { << SubSeq(last.name, 1, k - 1), SubSeq(last.name, k + 1, Len(last.name)) >> :
             k \in { k \in 1..Len(last.name) :
                       /\ last.name[k] = "_"
                       /\ \A j \in 1..(k - 1) : last.name[j] # "_" } }

C9_EndpointsOf(n) ==
    {Stored(n).endpoints[j].name : j \in 1..Len(Stored(n).endpoints)}

\* C9: an invocation whose target cannot be resolved issues no request
\* and returns the resolver's message: a name that is not call_api and
\* holds no separator; an api_name that is not registered (the API is
\* looked up before the endpoint); an endpoint_name that is no endpoint
\* of the registered API.
C9_UnresolvedNoRequest ==
    CalledTool =>
        /\ (last.name # CALL_API /\ \A k \in 1..Len(last.name) : last.name[k] # "_") =>
             /\ last.sent = <<>>
             /\ ReplyText = <<"Error calling API: ", "Invalid tool name format: ">>
                            \o last.name
        /\ ~IsNone(last.arguments) =>
             \A t \in C9_Targets :
               /\ t[1] \notin ApiNames(apis) =>
                    /\ last.sent = <<>>
                    /\ ReplyText = <<"Error calling API: ", "API '">> \o Str(t[1])
                                   \o <<"' not found">>
               /\ (t[1] \in ApiNames(apis) /\ t[2] \notin C9_EndpointsOf(t[1])) =>
                    /\ last.sent = <<>>
                    /\ ReplyText = <<"Error calling API: ", "Endpoint '">> \o Str(t[2])
                                   \o <<"' not found in API '">> \o t[1] \o <<"'">>

\* call_api was invoked for a registered API without endpoint_name: no
\* request went out and the text says the endpoint was not found.
C9_Witness ==
    /\ CalledTool /\ last.name = CALL_API /\ ~IsNone(last.arguments)
    /\ "api_name" \in DOMAIN last.arguments
    /\ last.arguments["api_name"] \in ApiNames(apis)
    /\ "endpoint_name" \notin DOMAIN last.arguments
    /\ last.sent = <<>>
    /\ ReplyText[2] = "Endpoint '"

\* ------------------------------------------------------------- C10
\* C10: in every reachable registry state the identifiers of the catalog
\* are pairwise distinct and exactly one of them is call_api.
C10_DistinctIdentifiers ==
    last.op = "list_tools" =>
        /\ \A i, j \in 1..Len(last.tools) :
             last.tools[i].name = last.tools[j].name => i = j
        /\ Cardinality({i \in 1..Len(last.tools) : last.tools[i].name = CALL_API}) = 1

====
